---- MODULE Spec2Model ----
(***************************************************************************)
(* FixReverter crash triage and coverage collection of fuzzbench:          *)
(*   experiment/measurer/fixreverter_run_crashes.py                        *)
(*       process_crash, parseFixReverterLog, _get_crash_key,               *)
(*       do_crashes_run                                                    *)
(*   experiment/measurer/fixreverter_run_coverage.py                       *)
(*       parseFixReverterLog, process_coverage, do_coverage_run            *)
(*                                                                         *)
(* Three specifications share the variables:                               *)
(*   SpecMin  one call of process_crash, the outcome of every trial fixed  *)
(*            by a function of the enabled subset (oracle);                *)
(*   SpecRun  do_crashes_run over a corpus, every trial outcome free;      *)
(*   SpecCov  do_coverage_run over a corpus.                               *)
(***************************************************************************)
EXTENDS Integers, Sequences, FiniteSets, TLC

\* ------------------------------------------------------------------ bounds
MaxId == 2
MaxLines == 2
MaxFiles == 2

\* -------------------------------------------------------------- data types
InjectionPointID == 1..MaxId

\* the last space-separated token of a log line: the decimal text of an ID,
\* or a token int() rejects
Malformed == "x"
Tokens == {ToString(i) : i \in InjectionPointID} \cup {Malformed}

\* one line of process output: which of the two substrings it contains and
\* its trailing token
Lines == [triggered : BOOLEAN, reached : BOOLEAN, token : Tokens]

\* result.output split at newlines; <<>> is the empty output of a hang
Outputs == UNION {[1..m -> Lines] : m \in 0..MaxLines}

\* the outputs given to the parser of fixreverter_run_crashes.py, which reads
\* the 'triggered bug index' lines only
CrashLines == [triggered : BOOLEAN, reached : {FALSE}, token : Tokens]
CrashOutputs == UNION {[1..m -> CrashLines] : m \in 0..MaxLines}

\* os.path.basename(crash_testcase_path) as far as process_crash reads it
Prefixes == {"oom-", "timeout-", "crash-"}
Skipped == {"oom-", "timeout-"}

Range(s) == {s[i] : i \in 1..Len(s)}

\* the orders in which iterating a Python set may yield its elements
Orders(S) == {s \in [1..Cardinality(S) -> S] : Range(s) = S}

\* ----------------------------------------------------------------- parsing
\* int(token): defined on decimal text only, ValueError otherwise
IsInt(tok) == \E i \in InjectionPointID : ToString(i) = tok
int(tok) == CHOOSE i \in InjectionPointID : ToString(i) = tok

\* the lines of the branch 'triggered bug index' in line
TriggeredLines(output) == {i \in 1..Len(output) : output[i].triggered}

\* the lines of the branch elif 'reached bug index' in line
ReachedLines(output) ==
    {i \in 1..Len(output) : ~output[i].triggered /\ output[i].reached}

\* the trailing tokens of the lines at positions I, as integers
IDs(output, I) == {int(output[i].token) : i \in I}

\* int() raises ValueError on one of the lines at positions I
Raises(output, I) == \E i \in I : ~IsInt(output[i].token)

\* fixreverter_run_crashes.parseFixReverterLog: [raised, triggers]
parseFixReverterLog(output) ==
    IF Raises(output, TriggeredLines(output))
    THEN [raised |-> TRUE, triggers |-> {}]
    ELSE [raised |-> FALSE,
          triggers |-> IDs(output, TriggeredLines(output))]

\* variant: the triggered branch without reaches.add (line 77 missing)
parseFixReverterLogCovNoReachAdd(output) ==
    IF Raises(output, TriggeredLines(output) \cup ReachedLines(output))
    THEN [raised |-> TRUE, reaches |-> {}, triggers |-> {}]
    ELSE [raised |-> FALSE,
          reaches |-> IDs(output, ReachedLines(output)),
          triggers |-> IDs(output, TriggeredLines(output))]

\* fixreverter_run_coverage.parseFixReverterLog: [raised, reaches, triggers]
parseFixReverterLogCov(output) ==
    IF Raises(output, TriggeredLines(output) \cup ReachedLines(output))
    THEN [raised |-> TRUE, reaches |-> {}, triggers |-> {}]
    ELSE [raised |-> FALSE,
          reaches |-> IDs(output, TriggeredLines(output)
                                  \cup ReachedLines(output)),
          triggers |-> IDs(output, TriggeredLines(output))]

\* --------------------------------------------------------------- crash key
Sorted(t) == SortSeq(t, LAMBDA a, b : a < b)

RECURSIVE Join(_)
Join(t) ==
    IF Len(t) = 0 THEN ""
    ELSE IF Len(t) = 1 THEN ToString(t[1])
    ELSE ToString(t[1]) \o "+" \o Join(Tail(t))

\* '+'.join(str(i) for i in sorted(crash_result.triggers))
get_crash_key(crash_result) == Join(Sorted(crash_result.triggers))

\* ------------------------------------------------------------ combinations
RECURSIVE Prepend(_, _)
Prepend(x, ts) ==
    IF ts = <<>> THEN <<>> ELSE <<(<<x>> \o Head(ts))>> \o Prepend(x, Tail(ts))

\* itertools.combinations(seq, r): the r-length subsequences of seq, in
\* lexicographic order of their positions
RECURSIVE Choose(_, _)
Choose(seq, r) ==
    IF r = 0 THEN << <<>> >>
    ELSE IF Len(seq) < r THEN <<>>
    ELSE Prepend(Head(seq), Choose(Tail(seq), r - 1)) \o Choose(Tail(seq), r)

\* variant: the sizes enumerated from the largest down
combinationsDescending(seq, r) == Choose(seq, Len(seq) + 1 - r)
\* line 110: itertools.combinations(triggers, n)
combinations(seq, r) == Choose(seq, r)

\* ------------------------------------------------------------------- state
VARIABLES
    pc,            \* position of the running function
    file_no,       \* how many testcases os.walk has yielded so far
    crash_filename,\* process_crash: the prefix of the testcase's file name
    triggers,      \* process_crash: the baseline triggered set, as iterated
    n,             \* process_crash: the subset size of the outer loop
    idx,           \* process_crash: position in combinations(triggers, n)
    crashes,       \* process_crash: the list of recorded crash sets
    trials,        \* the new_process.execute calls of this testcase, in order
    oracle,        \* isCrash of a subset trial, where it is fixed in advance
    run_crashes,   \* do_crashes_run: the dict crashes, key -> Crash
    producers,     \* TriggerSet -> the testcases that returned it, in order
    reaches,       \* do_coverage_run: accumulator reaches
    cov_triggers,  \* do_coverage_run: accumulator triggers
    cov            \* do_coverage_run: the last process_coverage result

vars == <<pc, file_no, crash_filename, triggers, n, idx, crashes, trials,
          oracle, run_crashes, producers, reaches, cov_triggers, cov>>

minVars == <<triggers, n, idx, crashes, trials>>
covVars == <<reaches, cov_triggers, cov>>

EmptyDict == [k \in {} |-> TRUE]
NoCov == [raised |-> FALSE, reaches |-> {}, triggers |-> {}]

\* ------------------------------------------------------------ process_crash
\* isCrash(result, app_binary): no output is a hang; otherwise the verdict
\* of the stack parser (a crash state, and not Timeout / Out-of-memory)
isCrash(output, classified) == output # <<>> /\ classified

\* line 99: if not isCrash(result, app_binary): return []
\* variant: the early return of line 100 missing
NotACrashUnchecked(output, classified) == FALSE
NotACrash(output, classified) == ~isCrash(output, classified)

Trial(isBaseline, currset, crashed) ==
    [baseline |-> isBaseline, currset |-> currset, crash |-> crashed]

\* variant: range(1, len(triggers))
SizesShort(t) == 1..(Len(t) - 1)
\* line 109: range(1, len(triggers)+1)
Sizes(t) == 1..Len(t)

\* variant: no pruning
isSuperNever(candidate, recorded) == FALSE
\* variant: issubset in place of issuperset
isSubset(candidate, recorded) ==
    \E i \in 1..Len(recorded) : Range(candidate) \subseteq Range(recorded[i])
\* lines 112-116: currset is a superset of a recorded crash set
isSuper(candidate, recorded) ==
    \E i \in 1..Len(recorded) : Range(recorded[i]) \subseteq Range(candidate)

currset == combinations(triggers, n)[idx]

\* the answers isCrash may give for the trial of subset s
TrialOutcomes(s) ==
    IF Range(s) \in DOMAIN oracle THEN {oracle[Range(s)]} ELSE BOOLEAN

\* lines 75-80: oom- and timeout- testcases are not run
SkipByFilename ==
    /\ pc = "call"
    /\ crash_filename \in Skipped
    /\ pc' = "returned"
    /\ crashes' = <<>>
    /\ trials' = <<>>
    /\ triggers' = <<>>
    /\ UNCHANGED <<file_no, crash_filename, n, idx, oracle, run_crashes,
                   producers>>
    /\ UNCHANGED covVars

\* lines 92-100: the baseline run is not a crash
BaselineNoCrash ==
    /\ pc = "call"
    /\ crash_filename \notin Skipped
    /\ \E output \in CrashOutputs, classified \in BOOLEAN :
        /\ NotACrash(output, classified)
        /\ trials' = <<Trial(TRUE, <<>>, isCrash(output, classified))>>
    /\ pc' = "returned"
    /\ crashes' = <<>>
    /\ triggers' = <<>>
    /\ UNCHANGED <<file_no, crash_filename, n, idx, oracle, run_crashes,
                   producers>>
    /\ UNCHANGED covVars

\* line 102: int() raises on the trailing token of a triggered line
BaselineParseError ==
    /\ pc = "call"
    /\ crash_filename \notin Skipped
    /\ \E output \in CrashOutputs, classified \in BOOLEAN :
        /\ ~NotACrash(output, classified)
        /\ parseFixReverterLog(output).raised
        /\ trials' = <<Trial(TRUE, <<>>, isCrash(output, classified))>>
    /\ pc' = "raised"
    /\ crashes' = <<>>
    /\ triggers' = <<>>
    /\ UNCHANGED <<file_no, crash_filename, n, idx, oracle, run_crashes,
                   producers>>
    /\ UNCHANGED covVars

\* lines 102-105: crashed without triggering an injection
BaselineNoTrigger ==
    /\ pc = "call"
    /\ crash_filename \notin Skipped
    /\ \E output \in CrashOutputs, classified \in BOOLEAN :
        /\ ~NotACrash(output, classified)
        /\ ~parseFixReverterLog(output).raised
        /\ parseFixReverterLog(output).triggers = {}
        /\ trials' = <<Trial(TRUE, <<>>, isCrash(output, classified))>>
    /\ pc' = "returned"
    /\ crashes' = <<>>
    /\ triggers' = <<>>
    /\ UNCHANGED <<file_no, crash_filename, n, idx, oracle, run_crashes,
                   producers>>
    /\ UNCHANGED covVars

\* lines 92-109: the baseline crashes with a non-empty triggered set
BaselineCrash ==
    /\ pc = "call"
    /\ crash_filename \notin Skipped
    /\ \E output \in CrashOutputs, classified \in BOOLEAN :
        /\ ~NotACrash(output, classified)
        /\ ~parseFixReverterLog(output).raised
        /\ parseFixReverterLog(output).triggers # {}
        /\ \E order \in Orders(parseFixReverterLog(output).triggers) :
            /\ triggers' = order
            /\ IF Sizes(order) = {}
               THEN pc' = "returned" /\ n' = n
               ELSE pc' = "search" /\ n' = 1
        /\ trials' = <<Trial(TRUE, <<>>, isCrash(output, classified))>>
    /\ idx' = 1
    /\ crashes' = <<>>
    /\ UNCHANGED <<file_no, crash_filename, oracle, run_crashes, producers>>
    /\ UNCHANGED covVars

\* the loop headers of lines 109-110: the next candidate, or return crashes
Advance ==
    IF idx < Len(combinations(triggers, n))
    THEN pc' = "search" /\ n' = n /\ idx' = idx + 1
    ELSE IF n + 1 \in Sizes(triggers)
    THEN pc' = "search" /\ n' = n + 1 /\ idx' = 1
    ELSE pc' = "returned" /\ n' = n /\ idx' = idx

\* lines 112-118: the candidate is pruned
SkipSuperset ==
    /\ pc = "search"
    /\ isSuper(currset, crashes)
    /\ Advance
    /\ UNCHANGED <<file_no, crash_filename, triggers, crashes, trials, oracle,
                   run_crashes,                   producers>>
    /\ UNCHANGED covVars

\* lines 120-129: the candidate is run and recorded when it crashes
ExecuteTrial ==
    /\ pc = "search"
    /\ ~isSuper(currset, crashes)
    /\ \E crashed \in TrialOutcomes(currset) :
        /\ trials' = Append(trials, Trial(FALSE, currset, crashed))
        /\ crashes' = IF crashed THEN Append(crashes, currset) ELSE crashes
    /\ Advance
    /\ UNCHANGED <<file_no, crash_filename, triggers, oracle, run_crashes,
                   producers>>
    /\ UNCHANGED covVars

ProcessCrash ==
    \/ SkipByFilename
    \/ BaselineNoCrash
    \/ BaselineParseError
    \/ BaselineNoTrigger
    \/ BaselineCrash
    \/ SkipSuperset
    \/ ExecuteTrial

\* ----------------------------------------------------------- do_crashes_run
\* Crash(crash_testcase=os.path.relpath(...), triggers=crashset): the
\* relative path of the file_no-th file of the walk is file_no
Crash(testcase, crashset) ==
    [crash_testcase |-> testcase, triggers |-> crashset]

\* variant: an existing key is kept
PutFirstWins(d, k, v) == IF k \in DOMAIN d THEN d ELSE (k :> v) @@ d
\* crashes[key] = crash
Put(d, k, v) == (k :> v) @@ d

\* lines 155-158 for the list crashesets of one testcase
RECURSIVE InsertAll(_, _, _)
InsertAll(d, crashesets, testcase) ==
    IF crashesets = <<>> THEN d
    ELSE InsertAll(Put(d, get_crash_key(Crash(testcase, Head(crashesets))),
                       Crash(testcase, Head(crashesets))),
                   Tail(crashesets), testcase)

\* the history of line 154: testcase returned the sets of crashesets
Produced(hist, crashesets, testcase) ==
    LET new == {Range(crashesets[i]) : i \in 1..Len(crashesets)}
    IN  [s \in new |-> IF s \in DOMAIN hist
                       THEN Append(hist[s], testcase)
                       ELSE <<testcase>>] @@ hist

\* lines 151-153: os.walk yields another file
NextFile ==
    /\ pc = "walk"
    /\ file_no < MaxFiles
    /\ file_no' = file_no + 1
    /\ crash_filename' \in Prefixes
    /\ pc' = "call"
    /\ UNCHANGED <<oracle, run_crashes, producers>>
    /\ UNCHANGED minVars
    /\ UNCHANGED covVars

\* lines 154-158: process_crash has returned, its sets enter the dict
Insert ==
    /\ pc = "returned"
    /\ run_crashes' = InsertAll(run_crashes, crashes, file_no)
    /\ producers' = Produced(producers, crashes, file_no)
    /\ pc' = "walk"
    /\ triggers' = <<>> /\ crashes' = <<>> /\ trials' = <<>>
    /\ n' = 1 /\ idx' = 1
    /\ UNCHANGED <<file_no, crash_filename, oracle>>
    /\ UNCHANGED covVars

\* line 159: the walk is exhausted
ReturnCrashes ==
    /\ pc = "walk"
    /\ pc' = "done"
    /\ UNCHANGED <<file_no, crash_filename, oracle, run_crashes, producers>>
    /\ UNCHANGED minVars
    /\ UNCHANGED covVars

\* ---------------------------------------------------------- do_coverage_run
\* lines 96-101 with a parse that succeeds
CoverageFile ==
    /\ pc = "walk"
    /\ file_no < MaxFiles
    /\ \E output \in Outputs :
        /\ ~parseFixReverterLogCov(output).raised
        /\ cov' = parseFixReverterLogCov(output)
    /\ reaches' = reaches \cup cov'.reaches
    /\ cov_triggers' = cov_triggers \cup cov'.triggers
    /\ file_no' = file_no + 1
    /\ pc' = "walk"
    /\ UNCHANGED <<crash_filename, oracle, run_crashes, producers>>
    /\ UNCHANGED minVars

\* lines 96-99 where int() raises inside process_coverage
CoverageParseError ==
    /\ pc = "walk"
    /\ file_no < MaxFiles
    /\ \E output \in Outputs : parseFixReverterLogCov(output).raised
    /\ file_no' = file_no + 1
    /\ pc' = "raised"
    /\ UNCHANGED <<crash_filename, oracle, run_crashes, producers>>
    /\ UNCHANGED minVars
    /\ UNCHANGED covVars

\* line 103
ReturnCoverage ==
    /\ pc = "walk"
    /\ pc' = "done"
    /\ UNCHANGED <<file_no, crash_filename, oracle, run_crashes, producers>>
    /\ UNCHANGED minVars
    /\ UNCHANGED covVars

\* ---------------------------------------------------------- specifications
InitCommon ==
    /\ triggers = <<>>
    /\ n = 1
    /\ idx = 1
    /\ crashes = <<>>
    /\ trials = <<>>
    /\ run_crashes = EmptyDict
    /\ producers = EmptyDict
    /\ reaches = {}
    /\ cov_triggers = {}
    /\ cov = NoCov

\* one call of process_crash; every subset trial answers oracle[subset]
InitMin ==
    /\ InitCommon
    /\ pc = "call"
    /\ file_no = 1
    /\ crash_filename \in Prefixes
    /\ oracle \in [SUBSET InjectionPointID -> BOOLEAN]

NextMin == ProcessCrash

SpecMin == InitMin /\ [][NextMin]_vars

\* the loop of process_crash runs to its end: each trial returns
FairSpecMin == SpecMin /\ WF_vars(NextMin)

\* do_crashes_run; the trials of each testcase answer freely
InitRun ==
    /\ InitCommon
    /\ pc = "walk"
    /\ file_no = 0
    /\ crash_filename = "crash-"
    /\ oracle = EmptyDict

NextRun == NextFile \/ ProcessCrash \/ Insert \/ ReturnCrashes

SpecRun == InitRun /\ [][NextRun]_vars

InitCov ==
    /\ InitCommon
    /\ pc = "walk"
    /\ file_no = 0
    /\ crash_filename = "crash-"
    /\ oracle = EmptyDict

NextCov == CoverageFile \/ CoverageParseError \/ ReturnCoverage

SpecCov == InitCov /\ [][NextCov]_vars

\* ------------------------------------------------------------------ claims
\* the recorded crash sets, as sets of IDs
Recorded == {Range(crashes[i]) : i \in 1..Len(crashes)}

\* the baseline run of this testcase was classified as a crash
BaselineCrashed == trials # <<>> /\ trials[1].baseline /\ trials[1].crash

\* the subset trials, i.e. the trials after the baseline
SubsetTrialIdx == {i \in 1..Len(trials) : ~trials[i].baseline}

TriedSets == {Range(trials[i].currset) : i \in SubsetTrialIdx}

RECURSIVE Pow2(_)
Pow2(k) == IF k = 0 THEN 1 ELSE 2 * Pow2(k - 1)

\* C1: at every point of the search and in the returned list, no recorded
\* crash set contains another recorded crash set (so no set is recorded
\* twice either), whatever the crash oracle answers.
C1_Incomparable ==
    \A i, j \in 1..Len(crashes) :
        i # j => ~(Range(crashes[j]) \subseteq Range(crashes[i]))

\* two crash sets are recorded although the oracle is not monotone: the
\* whole triggered set does not crash
C1_Witness ==
    /\ pc = "returned"
    /\ Len(crashes) >= 2
    /\ ~oracle[Range(triggers)]

\* C2: when the baseline crashes with a non-empty triggered set, every
\* non-empty subset that crashes and has no crashing non-empty proper subset
\* is in the returned list (this covers the sets none of whose proper
\* subsets crashes, the empty directive included).
C2_Complete ==
    (pc = "returned" /\ BaselineCrashed /\ triggers # <<>>) =>
        \A S \in (SUBSET Range(triggers)) \ {{}} :
            (oracle[S] /\ \A T \in (SUBSET S) \ {S, {}} : ~oracle[T])
                => S \in Recorded

\* a minimal crash set of two IDs and nothing else is returned
C2_Witness ==
    /\ pc = "returned"
    /\ Len(triggers) = 2
    /\ oracle[Range(triggers)]
    /\ \A i \in Range(triggers) : ~oracle[{i}]
    /\ Recorded = {Range(triggers)}

\* C3 as stated: every returned set crashes and none of its proper subsets
\* crashes, the empty subset included.
C3_SoundAllSubsets ==
    pc = "returned" =>
        \A S \in Recorded :
            oracle[S] /\ \A T \in (SUBSET S) \ {S} : ~oracle[T]

\* C3 amended: every recorded set crashes and none of its non-empty proper
\* subsets crashes.
C3_SoundNonEmpty ==
    \A S \in Recorded :
        oracle[S] /\ \A T \in (SUBSET S) \ {S, {}} : ~oracle[T]

\* a set of two IDs is returned
C3_Witness ==
    /\ pc = "returned"
    /\ \E S \in Recorded : Cardinality(S) = 2

\* C4: no trial runs a superset of the subset of an earlier trial that
\* crashed.
C4_SupersetPruned ==
    \A i, j \in SubsetTrialIdx :
        (i < j /\ trials[i].crash) =>
            ~(Range(trials[i].currset) \subseteq Range(trials[j].currset))

\* a single ID crashed and the whole triggered set of two was never run
C4_Witness ==
    /\ pc = "returned"
    /\ Len(triggers) = 2
    /\ \E S \in Recorded : Cardinality(S) = 1
    /\ Range(triggers) \notin TriedSets

\* C5: the baseline trial comes first and is the only one; the subset
\* trials follow in non-decreasing size; while the loop is at size n, every
\* trial so far has size at most n, every trial that crashed is recorded,
\* and every smaller subset has been run or pruned.
C5_AscendingSizes ==
    /\ trials # <<>> => trials[1].baseline
    /\ \A i \in 2..Len(trials) : ~trials[i].baseline
    /\ \A i, j \in SubsetTrialIdx :
           i < j => Len(trials[i].currset) <= Len(trials[j].currset)
    /\ pc = "search" =>
        /\ \A i \in SubsetTrialIdx : Len(trials[i].currset) <= n
        /\ \A i \in SubsetTrialIdx :
               trials[i].crash => Range(trials[i].currset) \in Recorded
        /\ \A S \in (SUBSET Range(triggers)) \ {{}} :
               Cardinality(S) < n =>
                   \/ S \in TriedSets
                   \/ \E C \in Recorded : C \subseteq S

\* the loop is at size 2 after trials of size 1, one of which crashed
C5_Witness ==
    /\ pc = "search"
    /\ n = 2
    /\ Len(trials) = 3
    /\ Len(crashes) = 1

\* C10: process_crash terminates; it runs each non-empty subset of the
\* triggered set at most once, so at most 2^k - 1 subset trials; exactly
\* 2^k - 1 when no subset trial crashes, and fewer when a trial of a subset
\* smaller than k crashes.
C10_Counts ==
    LET k == Len(triggers)
        count == Cardinality(SubsetTrialIdx)
    IN  /\ \A i, j \in SubsetTrialIdx :
               i # j => Range(trials[i].currset) # Range(trials[j].currset)
        /\ TriedSets \subseteq (SUBSET Range(triggers)) \ {{}}
        /\ count <= Pow2(k) - 1
        /\ (pc = "returned" /\ \A i \in SubsetTrialIdx : ~trials[i].crash)
               => count = Pow2(k) - 1
        /\ (pc = "returned" /\ \E i \in SubsetTrialIdx :
                trials[i].crash /\ Len(trials[i].currset) < k)
               => count < Pow2(k) - 1

C10_BoundedSearch ==
    /\ <>(pc \in {"returned", "raised"})
    /\ [](C10_Counts)

\* one ID crashes, the other does not, and the pair is never run
C10_Witness ==
    /\ pc = "returned"
    /\ Len(triggers) = 2
    /\ Len(crashes) = 1
    /\ Cardinality(SubsetTrialIdx) = 2

\* C6: a testcase whose baseline run is not a crash, or crashes with an
\* empty triggered set, returns no crash set after the baseline trial
\* alone, and its insertion leaves the mapping as it was.
C6_NoImplication ==
    [][(/\ pc = "returned"
        /\ Len(trials) >= 1
        /\ (~trials[1].crash \/ triggers = <<>>))
       => (/\ crashes = <<>>
           /\ Len(trials) = 1
           /\ run_crashes' = run_crashes)]_vars

\* the second testcase did not crash on its baseline and the mapping of the
\* first is in place
C6_Witness ==
    /\ pc = "returned"
    /\ file_no = 2
    /\ Len(trials) = 1
    /\ ~trials[1].crash
    /\ DOMAIN run_crashes # {}

\* the ascending sequence of the elements of S
RECURSIVE Ascending(_)
Ascending(S) ==
    IF S = {} THEN <<>>
    ELSE LET m == CHOOSE x \in S : \A y \in S : x <= y
         IN  <<m>> \o Ascending(S \ {m})

\* C7: the mapping has exactly one entry per TriggerSet returned by any
\* testcase so far, under the ascending IDs joined with '+', and that entry
\* carries the set and the last testcase that returned it.
C7_LastWriteWins ==
    /\ DOMAIN run_crashes = {Join(Ascending(S)) : S \in DOMAIN producers}
    /\ Cardinality(DOMAIN run_crashes) = Cardinality(DOMAIN producers)
    /\ \A S \in DOMAIN producers :
        LET entry == run_crashes[Join(Ascending(S))]
        IN  /\ Range(entry.triggers) = S
            /\ entry.crash_testcase = producers[S][Len(producers[S])]

\* two testcases returned the same set of two IDs; the returned mapping
\* names the second, whose tuple was not in ascending order
C7_Witness ==
    /\ pc = "done"
    /\ \E S \in DOMAIN producers :
        /\ Cardinality(S) = 2
        /\ producers[S] = <<1, 2>>
        /\ run_crashes[Join(Ascending(S))].crash_testcase = 2
        /\ run_crashes[Join(Ascending(S))].triggers # Ascending(S)

\* C8: the parser's triggered set is within its reached set, the
\* accumulated triggers are within the accumulated reaches after every
\* testcase, and no step removes an ID from an accumulator.
C8_ReachIncludesTrigger ==
    [][/\ cov'.triggers \subseteq cov'.reaches
       /\ cov_triggers' \subseteq reaches'
       /\ reaches \subseteq reaches'
       /\ cov_triggers \subseteq cov_triggers']_vars

\* two testcases in, an ID triggered and another only reached
C8_Witness ==
    /\ file_no = 2
    /\ cov_triggers # {}
    /\ reaches # cov_triggers
    /\ cov.triggers # {}

\* C9: a triggered line with a non-integer trailing token does not abort
\* the corpus walk.
C9_MalformedLineIsolated == pc # "raised"

====
